---- MODULE Spec2Model ----
(***************************************************************************)
(* Model of the Autonomous Incident Analyst backend:                       *)
(*   backend/memory.py  the incident store kept in incidents.json and the  *)
(*                      similarity retrieval over resolved incidents,      *)
(*   backend/llm.py     the analysis engine (external call, answer         *)
(*                      parsing, pattern-matching fallback, follow-up      *)
(*                      evaluation),                                       *)
(*   backend/main.py    the request handlers (submit, action, resolve,     *)
(*                      delete).                                           *)
(*                                                                         *)
(* Text that the code inspects character by character (logs) is a sequence *)
(* of one-character strings; text that the code only passes on is a        *)
(* string.  A Python dict is a record; dict.get(k, d) is Get(d, k, dflt).  *)
(***************************************************************************)
EXTENDS Integers, Sequences, FiniteSets, TLC

VARIABLES
    disk,       \* incidents.json: [state, data]; data is the list of incident dicts
    now,        \* the clock read by datetime.now()
    apiKey,     \* llm.YOU_API_KEY is non-empty (read once at import)
    hashOrder,  \* the iteration order of Python sets of str in this process
    tasks,      \* request coroutines suspended at an await, with their locals
    resp,       \* the response of the handler that returned last
    assigned,   \* history: the ids create_incident has assigned, oldest first
    persisted,  \* history: the list passed to the last save_incidents that completed
    call        \* the last engine call and its result (engine specifications)

vars == <<disk, now, apiKey, hashOrder, tasks, resp, assigned, persisted, call>>

---------------------------------------------------------------------------
(* Bounds of the model.                                                    *)

MaxIncidents == 2
MaxTime == 3
MaxTasks == 2
MaxTopK == 2

---------------------------------------------------------------------------
(* Generic helpers.                                                        *)

Get(d, k, dflt) == IF k \in DOMAIN d THEN d[k] ELSE dflt

Merge(d, updates) ==
    [k \in DOMAIN d \cup DOMAIN updates |->
        IF k \in DOMAIN updates THEN updates[k] ELSE d[k]]

Min(a, b) == IF a <= b THEN a ELSE b

Take(s, n) == SubSeq(s, 1, Min(n, Len(s)))

RECURSIVE Flatten(_)
Flatten(ss) == IF ss = <<>> THEN <<>> ELSE Head(ss) \o Flatten(Tail(ss))

RECURSIVE Join(_)
Join(pieces) == IF pieces = <<>> THEN "" ELSE Head(pieces) \o Join(Tail(pieces))

Range(s) == {s[i] : i \in 1..Len(s)}

---------------------------------------------------------------------------
(* str.lower() and the substring test `sub in s` on character sequences.   *)

UpperCase == <<"A","B","C","D","E","F","G","H","I","J","K","L","M",
               "N","O","P","Q","R","S","T","U","V","W","X","Y","Z">>
LowerCase == <<"a","b","c","d","e","f","g","h","i","j","k","l","m",
               "n","o","p","q","r","s","t","u","v","w","x","y","z">>

LowerChar(c) ==
    IF \E i \in 1..Len(UpperCase) : UpperCase[i] = c
    THEN LowerCase[CHOOSE i \in 1..Len(UpperCase) : UpperCase[i] = c]
    ELSE c

\* str.lower() left out: the text as it is
Lower_Identity(s) == s

Lower(s) == [i \in 1..Len(s) |-> LowerChar(s[i])]

Contains(sub, s) ==
    \E i \in 1..(Len(s) - Len(sub) + 1) : SubSeq(s, i, i + Len(sub) - 1) = sub

---------------------------------------------------------------------------
(* difflib.SequenceMatcher(None, a, b).ratio(), as calculate_similarity    *)
(* uses it.  No junk: isjunk is None and the autojunk heuristic needs 200  *)
(* or more characters.  The ratio 2*M/T is kept as the fraction            *)
(* [num |-> 2*M, den |-> T] (1/1 when both texts are empty).               *)

RECURSIVE MatchLen(_, _, _, _, _, _)
\* the length of the common run of a[i..ahi] and b[j..bhi]
MatchLen(a, b, i, ahi, j, bhi) ==
    IF i > ahi \/ j > bhi \/ a[i] # b[j] THEN 0
    ELSE 1 + MatchLen(a, b, i + 1, ahi, j + 1, bhi)

\* find_longest_match: a longest block, of those the one starting earliest
\* in a, and of those the one starting earliest in b
FindLongestMatch(a, b, alo, ahi, blo, bhi) ==
    LET blocks == {[i |-> p[1], j |-> p[2],
                    k |-> MatchLen(a, b, p[1], ahi, p[2], bhi)] :
                      p \in {q \in (alo..ahi) \X (blo..bhi) : a[q[1]] = b[q[2]]}}
        Before(x, y) == \/ x.k > y.k
                        \/ x.k = y.k /\ x.i < y.i
                        \/ x.k = y.k /\ x.i = y.i /\ x.j <= y.j
    IN  IF blocks = {} THEN [i |-> alo, j |-> blo, k |-> 0]
        ELSE CHOOSE x \in blocks : \A y \in blocks : Before(x, y)

RECURSIVE Matches(_, _, _, _, _, _)
\* get_matching_blocks: the block, then the text left of it, then right of it
Matches(a, b, alo, ahi, blo, bhi) ==
    IF alo > ahi \/ blo > bhi THEN 0
    ELSE LET m == FindLongestMatch(a, b, alo, ahi, blo, bhi)
         IN  IF m.k = 0 THEN 0
             ELSE m.k + Matches(a, b, alo, m.i - 1, blo, m.j - 1)
                      + Matches(a, b, m.i + m.k, ahi, m.j + m.k, bhi)

Ratio(a, b) ==
    IF Len(a) + Len(b) = 0 THEN [num |-> 1, den |-> 1]
    ELSE [num |-> 2 * Matches(a, b, 1, Len(a), 1, Len(b)), den |-> Len(a) + Len(b)]

calculate_similarity(text1, text2) == Ratio(Lower(text1), Lower(text2))

\* comparisons of fractions with positive denominators
Greater(x, y) == x.num * y.den > y.num * x.den

\* the minimum threshold 0.1 of find_similar_incidents
Threshold == [num |-> 1, den |-> 10]

---------------------------------------------------------------------------
(* backend/memory.py: the store.  The operators below take the list that   *)
(* load_incidents returned and give the list that save_incidents is passed *)
(* (field incidents) besides the function's return value.                  *)

\* Python's None, as returned by get_incident and update_incident
None == [none |-> TRUE]

\* load_incidents on a file that parses: [] when the file does not exist
load_incidents == IF disk.state = "absent" THEN <<>> ELSE disk.data

\* json.load raises on a file that a save_incidents left unfinished
Loadable == disk.state # "partial"

IsResolved(i) == Get(i, "status", "") = "resolved"

RECURSIVE InsertDesc_TiesFirst(_, _)
\* a sort that is not stable: an entry goes before the entries of its score
InsertDesc_TiesFirst(sorted, e) ==
    IF sorted = <<>> THEN <<e>>
    ELSE IF ~Greater(Head(sorted).score, e.score) THEN <<e>> \o sorted
    ELSE <<Head(sorted)>> \o InsertDesc_TiesFirst(Tail(sorted), e)

RECURSIVE InsertDesc(_, _)
\* the place list.sort(key=score, reverse=True) gives an entry: behind every
\* entry of the same or a higher score (the sort is stable)
InsertDesc(sorted, e) ==
    IF sorted = <<>> THEN <<e>>
    ELSE IF Greater(e.score, Head(sorted).score) THEN <<e>> \o sorted
    ELSE <<Head(sorted)>> \o InsertDesc(Tail(sorted), e)

RECURSIVE SortDesc(_)
SortDesc(scored) ==
    IF scored = <<>> THEN <<>>
    ELSE InsertDesc(SortDesc(SubSeq(scored, 1, Len(scored) - 1)), scored[Len(scored)])

\* the threshold test with >= for >
AboveThreshold_Inclusive(similarity) == ~Greater(Threshold, similarity)

AboveThreshold(similarity) == Greater(similarity, Threshold)

\* the (similarity, incident) pairs of find_similar_incidents, sorted
Scored(incidents, logs) ==
    LET resolved_incidents == SelectSeq(incidents, IsResolved)
        all == [n \in 1..Len(resolved_incidents) |->
                  [score |-> calculate_similarity(logs, Get(resolved_incidents[n], "logs", <<>>)),
                   incident |-> resolved_incidents[n]]]
        Keep(e) == AboveThreshold(e.score)
    IN  SortDesc(SelectSeq(all, Keep))

find_similar_incidents(incidents, logs, top_k) ==
    LET scored == Take(Scored(incidents, logs), top_k)
    IN  [n \in 1..Len(scored) |-> scored[n].incident]

NextId(incidents) == Len(incidents) + 1

create_incident(incidents, logs, metrics, t) ==
    LET incident == [id |-> NextId(incidents),
                     logs |-> logs,
                     metrics |-> metrics,
                     suspected_root_causes |-> <<>>,
                     attempted_fixes |-> <<>>,
                     status |-> "open",
                     created_at |-> t,
                     updated_at |-> t,
                     resolution_notes |-> ""]
    IN  [incidents |-> Append(incidents, incident), result |-> incident]

HasId(incidents, incident_id) ==
    \E n \in 1..Len(incidents) : incidents[n].id = incident_id

\* the first record with the id, as both loops over the list find it
IndexOf(incidents, incident_id) ==
    CHOOSE n \in 1..Len(incidents) :
        /\ incidents[n].id = incident_id
        /\ \A m \in 1..(n - 1) : incidents[m].id # incident_id

get_incident(incidents, incident_id) ==
    IF HasId(incidents, incident_id)
    THEN incidents[IndexOf(incidents, incident_id)]
    ELSE None

\* update_incident; saved tells whether save_incidents was called
update_incident(incidents, incident_id, updates, t) ==
    IF HasId(incidents, incident_id)
    THEN LET n == IndexOf(incidents, incident_id)
             updated == Merge(Merge(incidents[n], updates), [updated_at |-> t])
         IN  [incidents |-> [incidents EXCEPT ![n] = updated],
              result |-> updated, saved |-> TRUE]
    ELSE [incidents |-> incidents, result |-> None, saved |-> FALSE]

\* add_attempted_fix storing the new fix in place of the list
add_attempted_fix_Replacing(incidents, incident_id, fix, t) ==
    LET incident == get_incident(incidents, incident_id)
    IN  IF incident = None
        THEN [incidents |-> incidents, result |-> None, saved |-> FALSE]
        ELSE update_incident(incidents, incident_id,
                 [attempted_fixes |-> <<[fix |-> fix, applied_at |-> t]>>], t)

\* add_attempted_fix saving the fix but returning the record as it was read
add_attempted_fix_StaleResult(incidents, incident_id, fix, t) ==
    LET incident == get_incident(incidents, incident_id)
    IN  IF incident = None
        THEN [incidents |-> incidents, result |-> None, saved |-> FALSE]
        ELSE [incidents |->
                 update_incident(incidents, incident_id,
                     [attempted_fixes |->
                         Append(Get(incident, "attempted_fixes", <<>>),
                                [fix |-> fix, applied_at |-> t])], t).incidents,
              result |-> incident, saved |-> TRUE]

add_attempted_fix(incidents, incident_id, fix, t) ==
    LET incident == get_incident(incidents, incident_id)
    IN  IF incident = None
        THEN [incidents |-> incidents, result |-> None, saved |-> FALSE]
        ELSE update_incident(incidents, incident_id,
                 [attempted_fixes |->
                     Append(Get(incident, "attempted_fixes", <<>>),
                            [fix |-> fix, applied_at |-> t])], t)

ResolveUpdates(resolution_notes) ==
    [status |-> "resolved", resolution_notes |-> resolution_notes]

resolve_incident(incidents, incident_id, resolution_notes, t) ==
    update_incident(incidents, incident_id, ResolveUpdates(resolution_notes), t)

\* the list delete_incident (main.py) saves
WithoutId(incidents, incident_id) ==
    LET Other(i) == i.id # incident_id IN SelectSeq(incidents, Other)

---------------------------------------------------------------------------
(* backend/llm.py: the pattern-matching analysis.                          *)

\* the if/elif chain of generate_fallback_analysis, in its order
Patterns == <<
    [needles |-> {<<"o","o","m","k","i","l","l","e","d">>,
                  <<"o","u","t"," ","o","f"," ","m","e","m","o","r","y">>},
     causes |-> <<"Memory limit exceeded", "Memory leak in application", "Insufficient container resources">>,
     fix |-> "Increase memory limits in deployment configuration or investigate memory leaks using profiling tools",
     confidence |-> "high"],
    [needles |-> {<<"c","o","n","n","e","c","t","i","o","n"," ","r","e","f","u","s","e","d">>,
                  <<"e","c","o","n","n","r","e","f","u","s","e","d">>},
     causes |-> <<"Target service is down", "Network policy blocking connection", "Incorrect service endpoint">>,
     fix |-> "Check if target service is running and verify network policies allow the connection",
     confidence |-> "high"],
    [needles |-> {<<"t","i","m","e","o","u","t">>},
     causes |-> <<"Slow downstream service", "Network latency issues", "Resource contention">>,
     fix |-> "Increase timeout values or investigate performance of downstream services",
     confidence |-> "medium"],
    [needles |-> {<<"p","e","r","m","i","s","s","i","o","n"," ","d","e","n","i","e","d">>,
                  <<"4","0","3">>},
     causes |-> <<"Missing IAM permissions", "Incorrect service account", "RBAC misconfiguration">>,
     fix |-> "Review and update IAM/RBAC permissions for the affected service",
     confidence |-> "high"],
    [needles |-> {<<"c","r","a","s","h">>,
                  <<"s","e","g","f","a","u","l","t">>},
     causes |-> <<"Application bug", "Null pointer exception", "Stack overflow">>,
     fix |-> "Review recent code changes and check application logs for stack traces",
     confidence |-> "medium"],
    [needles |-> {<<"d","i","s","k">>,
                  <<"s","t","o","r","a","g","e">>,
                  <<"n","o"," ","s","p","a","c","e">>},
     causes |-> <<"Disk space exhausted", "Log files growing unbounded", "Large temporary files">>,
     fix |-> "Clean up old logs and temporary files, consider increasing storage allocation",
     confidence |-> "high"] >>

\* the else branch of the chain
NoPattern ==
    [causes |-> <<"Unknown error pattern", "Requires manual investigation">>,
     fix |-> "Review full logs and correlate with recent deployments or changes",
     confidence |-> "low"]

PatternMatches(n, logs_lower) ==
    \E needle \in Patterns[n].needles : Contains(needle, logs_lower)

\* the chain taking the last branch whose test holds
PatternTier_LastMatch(logs) ==
    LET logs_lower == Lower(logs)
        hits == {n \in 1..Len(Patterns) : PatternMatches(n, logs_lower)}
    IN  IF hits = {} THEN NoPattern
        ELSE LET last == CHOOSE n \in hits : \A m \in hits : n >= m
             IN  [causes |-> Patterns[last].causes,
                  fix |-> Patterns[last].fix,
                  confidence |-> Patterns[last].confidence]

\* the branch of the chain that is taken: the first whose test holds
PatternTier(logs) ==
    LET logs_lower == Lower(logs)
        hits == {n \in 1..Len(Patterns) : PatternMatches(n, logs_lower)}
    IN  IF hits = {} THEN NoPattern
        ELSE LET first == CHOOSE n \in hits : \A m \in hits : n <= m
             IN  [causes |-> Patterns[first].causes,
                  fix |-> Patterns[first].fix,
                  confidence |-> Patterns[first].confidence]

\* every cause text of the model, in one fixed order
CauseUniverse ==
    Flatten([n \in 1..Len(Patterns) |-> Patterns[n].causes]) \o NoPattern.causes
      \o <<"Unable to parse - manual review needed", "Upstream outage">>

Reverse(s) == [n \in 1..Len(s) |-> s[Len(s) + 1 - n]]

\* list(set(xs)): the distinct elements, in the order in which this process
\* iterates a set of str (it follows from the process's string hashing)
ListOfSet(xs) ==
    LET In(c) == c \in Range(xs)
    IN  SelectSeq(IF hashOrder = "forward" THEN CauseUniverse
                  ELSE Reverse(CauseUniverse), In)

PastCauses(similar_incidents) ==
    Flatten([n \in 1..Len(similar_incidents) |->
                Get(similar_incidents[n], "suspected_root_causes", <<>>)])

EnrichedCauses(causes, similar_incidents) ==
    IF similar_incidents # <<>> /\ PastCauses(similar_incidents) # <<>>
    THEN ListOfSet(causes \o Take(PastCauses(similar_incidents), 2))
    ELSE causes

AdjustedFix(fix, attempted_fixes) ==
    IF attempted_fixes # <<>>
    THEN "Previous fixes attempted. Next step: " \o fix
           \o ". Consider escalating if issue persists."
    ELSE fix

generate_fallback_analysis(logs, similar_incidents, attempted_fixes) ==
    LET tier == PatternTier(logs)
    IN  [suspected_root_causes |-> EnrichedCauses(tier.causes, similar_incidents),
         suggested_fix |-> AdjustedFix(tier.fix, attempted_fixes),
         confidence |-> tier.confidence,
         explanation |->
            "Analysis based on pattern matching in logs. "
              \o (IF similar_incidents # <<>>
                  THEN "Found " \o ToString(Len(similar_incidents))
                         \o " similar past incidents."
                  ELSE "No similar incidents found.")]

---------------------------------------------------------------------------
(* backend/llm.py: the external call and the parsing of its answer.        *)
(* An answer text is a sequence of pieces: "{", "}" or text without        *)
(* braces; the text itself is Join(pieces).                                *)

IsBrace(p) == p \in {"{", "}"}

\* re.search(r'\{[^{}]*\}', response): the leftmost "{" whose next brace is "}"
MatchStarts(response) ==
    {i \in 1..Len(response) :
        /\ response[i] = "{"
        /\ \E j \in (i + 1)..Len(response) :
              /\ response[j] = "}"
              /\ \A m \in (i + 1)..(j - 1) : ~IsBrace(response[m])}

\* the text between the braces of the match
MatchBody(response) ==
    LET i == CHOOSE s \in MatchStarts(response) : \A s2 \in MatchStarts(response) : s <= s2
        j == CHOOSE e \in (i + 1)..Len(response) :
                 /\ response[e] = "}"
                 /\ \A m \in (i + 1)..(e - 1) : response[m] # "}"
    IN  Join(SubSeq(response, i + 1, j - 1))

\* member lists of JSON objects and the dicts json.loads gives for them
JsonDiagnosis ==
    "\"suspected_root_causes\": [\"Upstream outage\"], \"suggested_fix\": \"Retry later\", \"confidence\": \"medium\", \"explanation\": \"Seen upstream\""
JsonNoCauses == "\"confidence\": \"medium\""
JsonOddConfidence ==
    "\"suspected_root_causes\": [\"Upstream outage\"], \"suggested_fix\": \"Retry later\", \"confidence\": \"certain\", \"explanation\": \"Seen upstream\""
JsonEvalResolve ==
    "\"likely_resolved\": true, \"remaining_concerns\": [], \"next_steps\": \"Close it\", \"recommendation\": \"resolve\""
JsonEvalContinue ==
    "\"likely_resolved\": false, \"remaining_concerns\": [\"Errors persist\"], \"next_steps\": \"Dig deeper\", \"recommendation\": \"continue_investigating\""
JsonEvalNoVerdict == "\"likely_resolved\": true"

JsonTexts == {JsonDiagnosis, JsonNoCauses, JsonOddConfidence,
              JsonEvalResolve, JsonEvalContinue, JsonEvalNoVerdict}

\* json.loads("{" + body + "}") succeeds
Decodes(body) == body \in JsonTexts

json_loads(body) ==
    CASE body = JsonDiagnosis ->
           [suspected_root_causes |-> <<"Upstream outage">>, suggested_fix |-> "Retry later",
            confidence |-> "medium", explanation |-> "Seen upstream"]
      [] body = JsonNoCauses -> [confidence |-> "medium"]
      [] body = JsonOddConfidence ->
           [suspected_root_causes |-> <<"Upstream outage">>, suggested_fix |-> "Retry later",
            confidence |-> "certain", explanation |-> "Seen upstream"]
      [] body = JsonEvalResolve ->
           [likely_resolved |-> TRUE, remaining_concerns |-> <<>>,
            next_steps |-> "Close it", recommendation |-> "resolve"]
      [] body = JsonEvalContinue ->
           [likely_resolved |-> FALSE, remaining_concerns |-> <<"Errors persist">>,
            next_steps |-> "Dig deeper", recommendation |-> "continue_investigating"]
      [] body = JsonEvalNoVerdict -> [likely_resolved |-> TRUE]

FixLimit == 500

Truncate(text, n) == IF Len(text) <= n THEN text ELSE SubSeq(text, 1, n)

\* the structured response parse_llm_response makes of text it cannot parse
Unparsed(response) ==
    [suspected_root_causes |-> <<"Unable to parse - manual review needed">>,
     suggested_fix |-> IF response # <<>> THEN Truncate(Join(response), FixLimit)
                       ELSE "Review logs manually",
     confidence |-> "low",
     explanation |-> "Response could not be parsed into structured format"]

parse_llm_response(response) ==
    IF MatchStarts(response) # {} /\ Decodes(MatchBody(response))
    THEN json_loads(MatchBody(response))
    ELSE Unparsed(response)

\* What the external service does to one call.  kind:
\*   "status"   a non-2xx status (raise_for_status raises)
\*   "timeout"  no response within the timeout (post raises)
\*   "notjson"  a body that is not JSON (response.json() raises)
\*   "notdict"  a JSON body that is no object (data.get raises)
\*   "nontext"  an "answer" that is no string (re.search raises)
\*   "noanswer" a JSON object without "answer"
\*   "answer"   a JSON object whose "answer" is the text `answer`
Raises(ext) == ext.kind \in {"status", "timeout", "notjson", "notdict", "nontext"}

Answer(ext) == IF ext.kind = "answer" THEN ext.answer ELSE <<>>

analyze_incident(logs, metrics, similar_incidents, attempted_fixes, ext) ==
    IF ~apiKey
    THEN generate_fallback_analysis(logs, similar_incidents, attempted_fixes)
    ELSE IF Raises(ext)
    THEN generate_fallback_analysis(logs, similar_incidents, attempted_fixes)
    ELSE parse_llm_response(Answer(ext))

\* the result of evaluate_after_fix without an API key
EvaluationWithoutKey(attempted_fixes) ==
    [likely_resolved |-> Len(attempted_fixes) > 0,
     remaining_concerns |-> <<>>,
     next_steps |-> IF Len(attempted_fixes) > 0 THEN "Monitor for recurrence"
                    ELSE "Apply suggested fix",
     recommendation |-> IF Len(attempted_fixes) > 0 THEN "resolve"
                        ELSE "continue_investigating"]

\* the result of evaluate_after_fix when the call raised
EvaluationOnError ==
    [likely_resolved |-> FALSE,
     remaining_concerns |-> <<"Could not evaluate - API error">>,
     next_steps |-> "Manual evaluation required",
     recommendation |-> "continue_investigating"]

evaluate_after_fix(incident, new_logs, ext) ==
    IF ~apiKey
    THEN EvaluationWithoutKey(Get(incident, "attempted_fixes", <<>>))
    ELSE IF Raises(ext) THEN EvaluationOnError
    ELSE parse_llm_response(Answer(ext))

---------------------------------------------------------------------------
(* Requests and external outcomes the model draws from.                    *)

Chars403 == <<"4","0","3">>
CharsDisk403 == <<"D","i","s","k"," ","4","0","3">>
CharsOk == <<"o","k">>

\* logs of the requests
LogSet == {Chars403, CharsDisk403}
MetricsSet == {""}
FixSet == {"restart pod"}
NewLogsSet == {<<>>, CharsOk}
NotesSet == {"bumped limit", "rolled back"}
IdSet == 1..MaxIncidents

\* answers of the external service, as pieces
ProseAnswer == <<"Probably upstream.">>
DiagnosisAnswer == <<"Here: ", "{", JsonDiagnosis, "}">>

\* what the external service does to a call of a request handler
ExtSet ==
    {[kind |-> "status"],
     [kind |-> "answer", answer |-> ProseAnswer],
     [kind |-> "answer", answer |-> DiagnosisAnswer]}

\* no external call is made
NoCall == [kind |-> "none"]

---------------------------------------------------------------------------
(* backend/main.py: the request handlers.  A handler runs without          *)
(* interruption up to an await of the external call; without an API key    *)
(* the awaited llm functions return without suspending.                    *)

DefaultTopK == 3
PreviewLimit == 200

\* save_incidents that completes
Saved(incidents) == [state |-> "complete", data |-> incidents]

\* submit_incident writing back the status of its own copy of the record
RootCauseUpdates_Stale(analysis) ==
    [suspected_root_causes |-> Get(analysis, "suspected_root_causes", <<>>),
     status |-> "open"]

\* the updates submit_incident passes to update_incident
RootCauseUpdates(analysis) ==
    [suspected_root_causes |-> Get(analysis, "suspected_root_causes", <<>>)]

SimilarView(similar_incidents) ==
    [n \in 1..Len(similar_incidents) |->
        [id |-> Get(similar_incidents[n], "id", 0),
         logs_preview |-> Take(Get(similar_incidents[n], "logs", <<>>), PreviewLimit),
         resolution |-> Get(similar_incidents[n], "resolution_notes", ""),
         root_causes |-> Get(similar_incidents[n], "suspected_root_causes", <<>>)]]

IncidentResponse(step, incident, analysis, similar_incidents) ==
    [step |-> step, code |-> 200,
     incident_id |-> incident.id,
     status |-> incident.status,
     suspected_root_causes |-> Get(analysis, "suspected_root_causes", <<>>),
     suggested_fix |-> Get(analysis, "suggested_fix", ""),
     confidence |-> Get(analysis, "confidence", "low"),
     explanation |-> Get(analysis, "explanation", ""),
     similar_incidents |-> SimilarView(similar_incidents),
     attempted_fixes |-> <<>>]

ActionResponse(step, request, updated_incident, evaluation, next_suggestion) ==
    [step |-> step, code |-> 200,
     incident_id |-> request.incident_id,
     status |-> updated_incident.status,
     evaluation |-> evaluation,
     next_suggestion |-> next_suggestion]

HTTPException(step, incident_id, code, detail) ==
    [step |-> step, code |-> code, incident_id |-> incident_id, detail |-> detail]

ResolveResponse(incident_id, message) ==
    [step |-> "resolve", code |-> 200, incident_id |-> incident_id,
     status |-> "resolved", message |-> message]

\* apply_action asking for a next suggestion whatever the evaluation says
Recommends_Always(evaluation) == "continue_investigating"

Recommends(evaluation) == Get(evaluation, "recommendation", "")

\* apply_action without its test for a resolved incident
AlreadyResolved_Skipped(incident) == FALSE

\* apply_action's test for a resolved incident
AlreadyResolved(incident) == incident.status = "resolved"

\* resolve_incident without its test for a resolved incident
WasResolved_Skipped(incident) == FALSE

\* resolve_incident's test for a resolved incident
WasResolved(incident) == incident.status = "resolved"

\* request.new_logs or incident["logs"]
LogsForNext(request, incident) ==
    IF request.new_logs # <<>> THEN request.new_logs ELSE incident.logs

Init ==
    /\ disk = [state |-> "absent", data |-> <<>>]
    /\ now = 0
    /\ apiKey \in BOOLEAN
    /\ hashOrder \in {"forward", "backward"}
    /\ tasks = {}
    /\ resp = [step |-> "none", code |-> 0]
    /\ assigned = <<>>
    /\ persisted = <<>>
    /\ call = [fn |-> "none"]

\* POST /incident, up to the await of llm.analyze_incident and, without an
\* API key, through to the response
Submit(logs, metrics) ==
    /\ Loadable
    /\ now < MaxTime
    /\ Len(load_incidents) < MaxIncidents
    /\ apiKey => Cardinality(tasks) < MaxTasks
    /\ LET t == now + 1
           similar_incidents == find_similar_incidents(load_incidents, logs, DefaultTopK)
           created == create_incident(load_incidents, logs, metrics, t)
           analysis == analyze_incident(logs, metrics, similar_incidents, <<>>, NoCall)
           updated == update_incident(created.incidents, created.result.id,
                                      RootCauseUpdates(analysis), t)
       IN  /\ now' = t
           /\ assigned' = Append(assigned, created.result.id)
           /\ IF apiKey
              THEN /\ disk' = Saved(created.incidents)
                   /\ persisted' = created.incidents
                   /\ tasks' = tasks \cup
                        {[op |-> "submit", pc |-> "analyze",
                          logs |-> logs, metrics |-> metrics,
                          similar_incidents |-> similar_incidents,
                          incident |-> created.result]}
                   /\ UNCHANGED resp
              ELSE /\ disk' = Saved(updated.incidents)
                   /\ persisted' = updated.incidents
                   /\ resp' = IncidentResponse("submit", created.result, analysis,
                                               similar_incidents)
                   /\ UNCHANGED tasks
    /\ UNCHANGED <<apiKey, hashOrder, call>>

\* POST /incident, from the return of the external call to the response
SubmitResume(task, ext) ==
    /\ task \in tasks
    /\ task.op = "submit"
    /\ Loadable
    /\ now < MaxTime
    /\ LET t == now + 1
           analysis == analyze_incident(task.logs, task.metrics,
                                        task.similar_incidents, <<>>, ext)
           updated == update_incident(load_incidents, task.incident.id,
                                      RootCauseUpdates(analysis), t)
       IN  /\ now' = t
           /\ IF updated.saved
              THEN disk' = Saved(updated.incidents) /\ persisted' = updated.incidents
              ELSE UNCHANGED <<disk, persisted>>
           /\ resp' = IncidentResponse("submit_resume", task.incident, analysis,
                                       task.similar_incidents)
           /\ tasks' = tasks \ {task}
    /\ UNCHANGED <<apiKey, hashOrder, assigned, call>>

\* POST /action, up to the await of llm.evaluate_after_fix and, without an
\* API key, through to the response
ApplyAction(request) ==
    /\ Loadable
    /\ LET t == now + 1
           incident == get_incident(load_incidents, request.incident_id)
           updated == add_attempted_fix(load_incidents, request.incident_id,
                                        request.fix_applied, t)
           evaluation == evaluate_after_fix(updated.result, request.new_logs, NoCall)
           similar_incidents ==
               find_similar_incidents(updated.incidents, incident.logs, DefaultTopK)
           next_suggestion ==
               IF Recommends(evaluation) = "continue_investigating"
               THEN analyze_incident(LogsForNext(request, incident),
                                     Get(incident, "metrics", ""), similar_incidents,
                                     Get(updated.result, "attempted_fixes", <<>>), NoCall)
               ELSE None
       IN  IF incident = None
           THEN /\ resp' = HTTPException("action", request.incident_id, 404,
                                         "Incident not found")
                /\ UNCHANGED <<disk, persisted, now, tasks>>
           ELSE IF AlreadyResolved(incident)
           THEN /\ resp' = HTTPException("action", request.incident_id, 400,
                                         "Incident already resolved")
                /\ UNCHANGED <<disk, persisted, now, tasks>>
           ELSE /\ apiKey => Cardinality(tasks) < MaxTasks
                /\ now < MaxTime
                /\ now' = t
                /\ disk' = Saved(updated.incidents)
                /\ persisted' = updated.incidents
                /\ IF apiKey
                   THEN /\ tasks' = tasks \cup
                             {[op |-> "action", pc |-> "evaluate",
                               request |-> request,
                               incident |-> incident,
                               updated_incident |-> updated.result]}
                        /\ UNCHANGED resp
                   ELSE /\ resp' = ActionResponse("action", request, updated.result,
                                                  evaluation, next_suggestion)
                        /\ UNCHANGED tasks
    /\ UNCHANGED <<apiKey, hashOrder, assigned, call>>

\* POST /action, from the return of the evaluation call to the await of
\* llm.analyze_incident or to the response
ActionEvaluated(task, ext) ==
    /\ task \in tasks
    /\ task.op = "action"
    /\ task.pc = "evaluate"
    /\ LET evaluation == evaluate_after_fix(task.updated_incident,
                                            task.request.new_logs, ext)
       IN  IF Recommends(evaluation) = "continue_investigating"
           THEN /\ Loadable
                /\ tasks' = (tasks \ {task}) \cup
                     {[op |-> "action", pc |-> "analyze",
                       request |-> task.request,
                       incident |-> task.incident,
                       updated_incident |-> task.updated_incident,
                       evaluation |-> evaluation,
                       similar_incidents |->
                           find_similar_incidents(load_incidents, task.incident.logs,
                                                  DefaultTopK)]}
                /\ UNCHANGED resp
           ELSE /\ tasks' = tasks \ {task}
                /\ resp' = ActionResponse("action_evaluated", task.request,
                                          task.updated_incident, evaluation, None)
    /\ UNCHANGED <<disk, persisted, now, apiKey, hashOrder, assigned, call>>

\* POST /action, from the return of the analysis call to the response
ActionAnalyzed(task, ext) ==
    /\ task \in tasks
    /\ task.op = "action"
    /\ task.pc = "analyze"
    /\ LET next_suggestion ==
               analyze_incident(LogsForNext(task.request, task.incident),
                                Get(task.incident, "metrics", ""),
                                task.similar_incidents,
                                Get(task.updated_incident, "attempted_fixes", <<>>), ext)
       IN  resp' = ActionResponse("action_analyzed", task.request,
                                  task.updated_incident, task.evaluation,
                                  next_suggestion)
    /\ tasks' = tasks \ {task}
    /\ UNCHANGED <<disk, persisted, now, apiKey, hashOrder, assigned, call>>

\* POST /resolve
Resolve(incident_id, resolution_notes) ==
    /\ Loadable
    /\ LET t == now + 1
           incident == get_incident(load_incidents, incident_id)
           updated == resolve_incident(load_incidents, incident_id, resolution_notes, t)
       IN  IF incident = None
           THEN /\ resp' = HTTPException("resolve", incident_id, 404, "Incident not found")
                /\ UNCHANGED <<disk, persisted, now>>
           ELSE IF WasResolved(incident)
           THEN /\ resp' = ResolveResponse(incident_id, "Incident was already resolved")
                /\ UNCHANGED <<disk, persisted, now>>
           ELSE /\ now < MaxTime
                /\ now' = t
                /\ disk' = Saved(updated.incidents)
                /\ persisted' = updated.incidents
                /\ resp' = ResolveResponse(incident_id,
                       "Incident resolved and stored in memory for future reference")
    /\ UNCHANGED <<apiKey, hashOrder, tasks, assigned, call>>

\* DELETE /incidents/{incident_id}
Delete(incident_id) ==
    /\ Loadable
    /\ disk' = Saved(WithoutId(load_incidents, incident_id))
    /\ persisted' = WithoutId(load_incidents, incident_id)
    /\ resp' = [step |-> "delete", code |-> 200, incident_id |-> incident_id]
    /\ UNCHANGED <<now, apiKey, hashOrder, tasks, assigned, call>>

ActionRequests ==
    [incident_id : IdSet, fix_applied : FixSet, new_logs : NewLogsSet]

Next ==
    \/ \E logs \in LogSet, metrics \in MetricsSet : Submit(logs, metrics)
    \/ \E task \in tasks, ext \in ExtSet : SubmitResume(task, ext)
    \/ \E request \in ActionRequests : ApplyAction(request)
    \/ \E task \in tasks, ext \in ExtSet : ActionEvaluated(task, ext)
    \/ \E task \in tasks, ext \in ExtSet : ActionAnalyzed(task, ext)
    \/ \E incident_id \in IdSet, notes \in NotesSet : Resolve(incident_id, notes)
    \/ \E incident_id \in IdSet : Delete(incident_id)

Spec == Init /\ [][Next]_vars

---------------------------------------------------------------------------
(* The handlers of a process started without YOU_API_KEY: no handler        *)
(* suspends, and POST /action is given new logs with and without an error.  *)

ActionLogs == NewLogsSet \cup {Chars403}

ActionRequestsNoKey ==
    [incident_id : IdSet, fix_applied : FixSet, new_logs : ActionLogs]

InitNoKey ==
    /\ disk = [state |-> "absent", data |-> <<>>]
    /\ now = 0
    /\ apiKey = FALSE
    /\ hashOrder \in {"forward", "backward"}
    /\ tasks = {}
    /\ resp = [step |-> "none", code |-> 0]
    /\ assigned = <<>>
    /\ persisted = <<>>
    /\ call = [fn |-> "none"]

NextNoKey ==
    \/ \E logs \in LogSet, metrics \in MetricsSet : Submit(logs, metrics)
    \/ \E request \in ActionRequestsNoKey : ApplyAction(request)
    \/ \E incident_id \in IdSet, notes \in NotesSet : Resolve(incident_id, notes)
    \/ \E incident_id \in IdSet : Delete(incident_id)

SpecNoKey == InitNoKey /\ [][NextNoKey]_vars

---------------------------------------------------------------------------
(* save_incidents that does not complete.  open(MEMORY_FILE, "w") has      *)
(* emptied the file and json.dump raises (the disk is full, an I/O error)  *)
(* after writing `written` of the records: the file is left as it is, and  *)
(* json.load raises on it from then on.                                    *)

Interrupted(incidents, written) ==
    [state |-> "partial", data |-> SubSeq(incidents, 1, written)]

InternalError(step) == [step |-> step, code |-> 500]

\* the lists that the handlers of new requests pass to save_incidents
RequestSaves ==
    {create_incident(load_incidents, l, m, now + 1).incidents :
        l \in {x \in LogSet : Len(load_incidents) < MaxIncidents /\ now < MaxTime},
        m \in MetricsSet}
      \cup {add_attempted_fix(load_incidents, r.incident_id, r.fix_applied, now + 1).incidents :
              r \in {q \in ActionRequests :
                       /\ now < MaxTime
                       /\ get_incident(load_incidents, q.incident_id) # None
                       /\ ~AlreadyResolved(get_incident(load_incidents, q.incident_id))}}
      \cup {resolve_incident(load_incidents, r[1], r[2], now + 1).incidents :
              r \in {q \in IdSet \X NotesSet :
                       /\ now < MaxTime
                       /\ get_incident(load_incidents, q[1]) # None
                       /\ ~WasResolved(get_incident(load_incidents, q[1]))}}
      \cup {WithoutId(load_incidents, incident_id) : incident_id \in IdSet}

\* a new request whose save_incidents raises: the handler ends with the error
RequestSaveInterrupted ==
    /\ Loadable
    /\ \E incidents \in RequestSaves, written \in 0..MaxIncidents :
          /\ written <= Len(incidents)
          /\ disk' = Interrupted(incidents, written)
    /\ resp' = InternalError("save")
    /\ UNCHANGED <<now, apiKey, hashOrder, tasks, assigned, persisted, call>>

\* POST /incident resumed, and the save_incidents of its update_incident raises
ResumeSaveInterrupted(task, ext) ==
    /\ task \in tasks
    /\ task.op = "submit"
    /\ Loadable
    /\ now < MaxTime
    /\ LET analysis == analyze_incident(task.logs, task.metrics,
                                        task.similar_incidents, <<>>, ext)
           updated == update_incident(load_incidents, task.incident.id,
                                      RootCauseUpdates(analysis), now + 1)
       IN  /\ updated.saved
           /\ \E written \in 0..MaxIncidents :
                 /\ written <= Len(updated.incidents)
                 /\ disk' = Interrupted(updated.incidents, written)
    /\ tasks' = tasks \ {task}
    /\ resp' = InternalError("save")
    /\ UNCHANGED <<now, apiKey, hashOrder, assigned, persisted, call>>

\* any request on a file that json.load cannot parse
RequestOnBrokenFile ==
    /\ ~Loadable
    /\ resp' = InternalError("load")
    /\ UNCHANGED <<disk, now, apiKey, hashOrder, tasks, assigned, persisted, call>>

\* a suspended handler that goes on to load a file that json.load cannot parse
TaskOnBrokenFile(task, ext) ==
    /\ ~Loadable
    /\ task \in tasks
    /\ \/ task.op = "submit"
       \/ /\ task.op = "action"
          /\ task.pc = "evaluate"
          /\ Recommends(evaluate_after_fix(task.updated_incident,
                                           task.request.new_logs, ext))
               = "continue_investigating"
    /\ tasks' = tasks \ {task}
    /\ resp' = InternalError("load")
    /\ UNCHANGED <<disk, now, apiKey, hashOrder, assigned, persisted, call>>

NextIO ==
    \/ Next
    \/ RequestSaveInterrupted
    \/ \E task \in tasks, ext \in ExtSet : ResumeSaveInterrupted(task, ext)
    \/ RequestOnBrokenFile
    \/ \E task \in tasks, ext \in ExtSet : TaskOnBrokenFile(task, ext)

SpecIO == Init /\ [][NextIO]_vars

---------------------------------------------------------------------------
(* The retrieval and analysis functions on their own: the store is drawn   *)
(* from the lists of records that requests can have left in the file, and  *)
(* each behaviour is one call, recorded in `call`.                         *)

MaxStore == 3
MaxPast == 2

CharsC == <<"c">>
CharsRefused == <<"c","o","n","n","e","c","t","i","o","n"," ",
                  "r","e","f","u","s","e","d",".">>

EngineLogs == {Chars403, CharsDisk403, CharsC, CharsRefused}

CharsAllFine == <<"a","l","l"," ","f","i","n","e">>
CharsOom == <<"O","O","M","K","i","l","l","e","d">>
CharsOomTimeout == <<"p","o","d"," ","o","o","m","k","i","l","l","e","d",",",
                     " ","t","i","m","e","o","u","t">>

\* logs given to the pattern tier: empty, matching no signature, matching one
\* and matching several
PatternLogs == {<<>>, CharsAllFine, CharsOom, CharsOomTimeout, Chars403, CharsDisk403}

\* the attempted_fixes lists given to the analysis
FixLists == {<<>>, <<[fix |-> "restart pod", applied_at |-> 1]>>}

\* root causes a submit can have stored: none, the external answer's, the
\* pattern tier's
StoredCauses == {<<>>, <<"Upstream outage">>, Patterns[4].causes}

\* a record as create_incident, update_incident and resolve_incident leave
\* it, but for its id and its timestamps
StoredIncident(logs, status, causes) ==
    [id |-> 0, logs |-> logs, metrics |-> "", suspected_root_causes |-> causes,
     attempted_fixes |-> <<>>, status |-> status, created_at |-> 0, updated_at |-> 0,
     resolution_notes |-> IF status = "resolved" THEN "bumped limit" ELSE ""]

\* the ids and timestamps of a store that saw no delete: the n-th record has
\* id n and was written at time n
Numbered(s) ==
    [n \in 1..Len(s) |-> Merge(s[n], [id |-> n, created_at |-> n, updated_at |-> n])]

\* the stores of at most max records of the given kinds
StoresOf(kinds, max) ==
    {Numbered(s) : s \in UNION {[1..len -> kinds] : len \in 0..max}}

RetrievalKinds ==
    {StoredIncident(l, st, IF st = "resolved" THEN <<"Upstream outage">> ELSE <<>>) :
        l \in EngineLogs, st \in {"open", "resolved"}}

AnalysisKinds ==
    {StoredIncident(l, "open", <<>>) : l \in LogSet}
      \cup {StoredIncident(l, "resolved", c) : l \in LogSet, c \in StoredCauses}

EngineAnswers ==
    {<<>>, ProseAnswer, DiagnosisAnswer,
     <<"{", JsonNoCauses, "}", " maybe">>,
     <<"{", JsonOddConfidence, "}">>,
     <<"{", "{", "not json", "}", "}">>,
     <<"{", JsonEvalResolve, "}">>,
     <<"{", JsonEvalContinue, "}">>,
     <<"Verdict: ", "{", JsonEvalNoVerdict, "}">>}

EngineExts ==
    {[kind |-> k] : k \in {"status", "timeout", "notjson", "notdict", "nontext", "noanswer"}}
      \cup {[kind |-> "answer", answer |-> a] : a \in EngineAnswers}

InitRetrieve ==
    /\ disk \in {Saved(s) : s \in StoresOf(RetrievalKinds, MaxStore)}
    /\ now = Len(disk.data)
    /\ apiKey = FALSE
    /\ hashOrder = "forward"
    /\ tasks = {}
    /\ resp = [step |-> "none", code |-> 0]
    /\ assigned = [n \in 1..Len(disk.data) |-> n]
    /\ persisted = disk.data
    /\ call = [fn |-> "none"]

InitEngine ==
    /\ disk \in {Saved(s) : s \in StoresOf(AnalysisKinds, MaxPast)}
    /\ now = Len(disk.data)
    /\ apiKey \in BOOLEAN
    /\ hashOrder \in {"forward", "backward"}
    /\ tasks = {}
    /\ resp = [step |-> "none", code |-> 0]
    /\ assigned = [n \in 1..Len(disk.data) |-> n]
    /\ persisted = disk.data
    /\ call = [fn |-> "none"]

\* the outcomes of the external call: none is made without an API key
CallExts == IF apiKey THEN EngineExts ELSE {NoCall}

EngineUnchanged == UNCHANGED <<disk, now, apiKey, hashOrder, tasks, resp, assigned, persisted>>

CallFindSimilar(logs, top_k) ==
    /\ call.fn = "none"
    /\ call' = [fn |-> "find_similar_incidents", logs |-> logs, top_k |-> top_k,
                result |-> find_similar_incidents(load_incidents, logs, top_k)]
    /\ EngineUnchanged

CallAnalyze(logs, attempted_fixes, ext) ==
    /\ call.fn = "none"
    /\ LET similar_incidents == find_similar_incidents(load_incidents, logs, DefaultTopK)
       IN  call' = [fn |-> "analyze_incident", logs |-> logs,
                    similar_incidents |-> similar_incidents,
                    attempted_fixes |-> attempted_fixes,
                    ext |-> ext,
                    result |-> analyze_incident(logs, "", similar_incidents,
                                                attempted_fixes, ext)]
    /\ EngineUnchanged

CallEvaluate(n, fixed, new_logs, ext) ==
    /\ call.fn = "none"
    /\ n \in 1..Len(load_incidents)
    /\ load_incidents[n].status = "open"
    /\ LET incident ==
               IF fixed
               THEN add_attempted_fix(load_incidents, load_incidents[n].id,
                                      "restart pod", now + 1).result
               ELSE load_incidents[n]
       IN  call' = [fn |-> "evaluate_after_fix", incident |-> incident,
                    new_logs |-> new_logs,
                    ext |-> ext,
                    result |-> evaluate_after_fix(incident, new_logs, ext)]
    /\ EngineUnchanged

CallFallback(logs, attempted_fixes) ==
    /\ call.fn = "none"
    /\ LET similar_incidents == find_similar_incidents(load_incidents, logs, DefaultTopK)
       IN  call' = [fn |-> "generate_fallback_analysis", logs |-> logs,
                    similar_incidents |-> similar_incidents,
                    attempted_fixes |-> attempted_fixes,
                    result |-> generate_fallback_analysis(logs, similar_incidents,
                                                          attempted_fixes)]
    /\ EngineUnchanged

NextRetrieve ==
    \E logs \in EngineLogs, top_k \in 0..MaxTopK : CallFindSimilar(logs, top_k)

SpecRetrieve == InitRetrieve /\ [][NextRetrieve]_vars

NextEngine ==
    \/ \E logs \in EngineLogs, fixes \in FixLists, ext \in CallExts :
          CallAnalyze(logs, fixes, ext)
    \/ \E logs \in PatternLogs, fixes \in FixLists : CallFallback(logs, fixes)
    \/ \E n \in 1..MaxPast, fixed \in BOOLEAN, new_logs \in NewLogsSet, ext \in CallExts :
          CallEvaluate(n, fixed, new_logs, ext)

SpecEngine == InitEngine /\ [][NextEngine]_vars

---------------------------------------------------------------------------
(* Properties.  A stored record is followed from state to state by its     *)
(* created_at, which create_incident sets from the clock and nothing       *)
(* changes; ids do not identify a record (see C1).                         *)

Stored == Range(disk.data)

SameRecord(i, j) == i.created_at = j.created_at

\* the record a request for incident_id acts on, in the current state
Target(incident_id) == get_incident(disk.data, incident_id)

\* C1: in every reachable state of the store no two stored incident records
\* have the same id.
C1_UniqueIds ==
    \A m, n \in 1..Len(disk.data) : m # n => disk.data[m].id # disk.data[n].id

\* C2: a stored incident whose status is resolved does not have status open
\* after any step of any request (submit, applyFix, resolve, delete), however
\* the requests interleave.
C2_ResolvedNeverReopens ==
    [][\A i \in Stored : \A j \in Range(disk'.data) :
          (SameRecord(i, j) /\ i.status = "resolved") => j.status # "open"]_vars

\* a POST /incident resumed after its incident was resolved, and has written
\* its root causes to the resolved record
C2_Witness ==
    /\ resp.step = "submit_resume"
    /\ \E i \in Stored : /\ i.id = resp.incident_id
                         /\ i.status = "resolved"
                         /\ i.updated_at = now

\* C3: no step changes the attempted_fixes of a record that is resolved, and
\* an applyFix request for a resolved incident is answered with 400
\* "Incident already resolved" and leaves the file as it is.
C3_NoFixOnResolved ==
    [][/\ \A i \in Stored : \A j \in Range(disk'.data) :
             (SameRecord(i, j) /\ i.status = "resolved")
                => j.attempted_fixes = i.attempted_fixes
       /\ (/\ resp' # resp
           /\ resp'.step = "action"
           /\ Target(resp'.incident_id) # None
           /\ Target(resp'.incident_id).status = "resolved")
             => /\ resp'.code = 400
                /\ resp'.detail = "Incident already resolved"
                /\ disk' = disk]_vars

\* an applyFix was refused for a resolved incident that has a fix recorded
C3_Witness ==
    /\ resp.step = "action"
    /\ resp.code = 400
    /\ Target(resp.incident_id) # None
    /\ Target(resp.incident_id).status = "resolved"
    /\ Target(resp.incident_id).attempted_fixes # <<>>

\* C4: an open record has empty resolution_notes, no step changes the
\* resolution_notes of a resolved record, and a resolve request for a resolved
\* incident is answered with success and "Incident was already resolved" and
\* leaves the file (the notes and updated_at with it) as it is.
C4_ResolveOnce ==
    [][/\ \A i \in Stored : i.status = "open" => i.resolution_notes = ""
       /\ \A i \in Stored : \A j \in Range(disk'.data) :
             (SameRecord(i, j) /\ i.status = "resolved")
                => j.resolution_notes = i.resolution_notes
       /\ (/\ resp' # resp
           /\ resp'.step = "resolve"
           /\ Target(resp'.incident_id) # None
           /\ Target(resp'.incident_id).status = "resolved")
             => /\ resp'.code = 200
                /\ resp'.status = "resolved"
                /\ resp'.message = "Incident was already resolved"
                /\ disk' = disk]_vars

\* a resolve was answered "already resolved" for a record that keeps its notes
C4_Witness ==
    /\ resp.step = "resolve"
    /\ resp.code = 200
    /\ resp.message = "Incident was already resolved"
    /\ Target(resp.incident_id) # None
    /\ Target(resp.incident_id).status = "resolved"
    /\ Target(resp.incident_id).resolution_notes \in NotesSet

\* C5: every id assigned by create_incident is greater than every id assigned
\* before it, also when incidents were deleted in between.
C5_IdsIncrease ==
    \A m, n \in 1..Len(assigned) : m < n => assigned[m] < assigned[n]

\* calculate_similarity of every pair of the logs that queries and stored
\* incidents are drawn from, tabulated (@@ gives the function as a table)
SimilarityTable ==
    [pair \in EngineLogs \X EngineLogs |-> calculate_similarity(pair[1], pair[2])] @@ <<>>

Score(call_logs, incident) == SimilarityTable[<<call_logs, incident.logs>>]

\* the stored resolved incidents that score above 0.1 against the query
Qualifying(call_logs) ==
    {n \in 1..Len(disk.data) :
        /\ disk.data[n].status = "resolved"
        /\ 10 * Score(call_logs, disk.data[n]).num > Score(call_logs, disk.data[n]).den}

\* C6: find_similar_incidents returns stored incidents only, each resolved and
\* scoring strictly above 0.1 against the query, at most top_k of them, in
\* order of non-increasing score, and none when no stored incident is resolved
\* or every resolved one scores 0.1 or less.
C6_FindSimilar ==
    call.fn = "find_similar_incidents" =>
        LET r == call.result
        IN  /\ \A n \in 1..Len(r) :
                  /\ r[n] \in Stored
                  /\ r[n].status = "resolved"
                  /\ 10 * Score(call.logs, r[n]).num > Score(call.logs, r[n]).den
            /\ Len(r) <= call.top_k
            /\ \A n \in 1..(Len(r) - 1) :
                  Score(call.logs, r[n]).num * Score(call.logs, r[n + 1]).den
                    >= Score(call.logs, r[n + 1]).num * Score(call.logs, r[n]).den
            /\ Qualifying(call.logs) = {} => r = <<>>

\* a call that more incidents qualify for than top_k lets through, one of
\* the resolved incidents scoring exactly 0.1
C6_Witness ==
    /\ call.fn = "find_similar_incidents"
    /\ call.top_k > 0
    /\ Len(call.result) = call.top_k
    /\ Cardinality(Qualifying(call.logs)) > call.top_k
    /\ \E i \in Stored : /\ i.status = "resolved"
                         /\ 10 * Score(call.logs, i).num = Score(call.logs, i).den

\* C7: the file always holds, complete, the list of the last save_incidents
\* that completed: a save_incidents that fails leaves the file as it was.
C7_SaveAtomic ==
    /\ disk.state # "partial"
    /\ load_incidents = persisted

DiagnosisFields == {"suspected_root_causes", "suggested_fix", "confidence", "explanation"}

\* the answer holds a JSON object with the fields of a diagnosis
Structured(answer) ==
    /\ MatchStarts(answer) # {}
    /\ Decodes(MatchBody(answer))
    /\ DiagnosisFields \subseteq DOMAIN json_loads(MatchBody(answer))

\* the external call failed: no 2xx response in time, a malformed body, or an
\* answer without the structured fields
CallFailed(ext) == ext.kind # "answer" \/ ~Structured(ext.answer)

\* C8: when the external call fails in any way, analyze_incident returns what
\* the pattern tier with the similarity enrichment gives for the same logs,
\* similar incidents and attempted fixes.
C8_FailureGivesPatternTier ==
    (call.fn = "analyze_incident" /\ apiKey /\ CallFailed(call.ext))
      => call.result = generate_fallback_analysis(call.logs, call.similar_incidents,
                                                  call.attempted_fixes)

\* C9: whatever the external service answers, analyze_incident returns a
\* diagnosis with root causes, fix and explanation and a confidence of low,
\* medium or high.
C9_ValidDiagnosis ==
    call.fn = "analyze_incident" =>
        /\ DiagnosisFields \subseteq DOMAIN call.result
        /\ call.result.confidence \in {"low", "medium", "high"}

\* C10: whatever the external service does, evaluate_after_fix returns a
\* boolean likely_resolved, remaining_concerns, next_steps and a recommendation
\* of resolve or continue_investigating.
C10_ValidEvaluation ==
    call.fn = "evaluate_after_fix" =>
        /\ {"likely_resolved", "remaining_concerns", "next_steps", "recommendation"}
             \subseteq DOMAIN call.result
        /\ call.result.likely_resolved \in BOOLEAN
        /\ call.result.recommendation \in {"resolve", "continue_investigating"}

\* texts that tell of an error: the needles of the signatures and the words
\* error, fail, exception
ErrorWords ==
    UNION {Patterns[n].needles : n \in 1..Len(Patterns)}
      \cup {<<"e","r","r","o","r">>, <<"f","a","i","l">>,
            <<"e","x","c","e","p","t","i","o","n">>}

NoErrorIndicator(logs) ==
    \A word \in ErrorWords : ~Contains(word, [i \in 1..Len(logs) |-> LowerChar(logs[i])])

\* evaluate_after_fix did not use an answer of the external service
UsedFallback == ~apiKey \/ Raises(call.ext)

\* new logs were supplied and tell of no error
CleanNewLogs == call.new_logs # <<>> /\ NoErrorIndicator(call.new_logs)

\* C11: when evaluate_after_fix answers without the external service (no API
\* key, or the call failed) and new_logs is supplied and holds no error
\* indicator, the result has likely_resolved true and recommendation resolve;
\* otherwise, with no fix attempted, the recommendation is not resolve.
C11_FallbackPolicy ==
    (call.fn = "evaluate_after_fix" /\ UsedFallback) =>
        /\ CleanNewLogs => /\ call.result.likely_resolved = TRUE
                           /\ call.result.recommendation = "resolve"
        /\ (~CleanNewLogs /\ call.incident.attempted_fixes = <<>>)
              => call.result.recommendation # "resolve"

\* the signatures whose test holds for the logs
Hits(logs) ==
    {n \in 1..Len(Patterns) :
        PatternMatches(n, [i \in 1..Len(logs) |-> LowerChar(logs[i])])}

\* logs that contain "OOMKilled", in mixed and in lower case
OomLogs == {CharsOom, CharsOomTimeout}

MemoryCauses == {"Memory limit exceeded", "Memory leak in application"}

\* C13: for logs that contain "OOMKilled" in any letter case, whatever the
\* similar incidents and attempted fixes, and with or without an API key,
\* generate_fallback_analysis returns confidence high and a cause list that
\* holds a memory-related cause.
C13_OomKilledHigh ==
    (call.fn = "generate_fallback_analysis" /\ call.logs \in OomLogs) =>
        /\ call.result.confidence = "high"
        /\ Range(call.result.suspected_root_causes) \cap MemoryCauses # {}

\* the pattern tier ran, with an API key set, on mixed-case "OOMKilled" logs
\* with a similar incident and an attempted fix
C13_Witness ==
    /\ call.fn = "generate_fallback_analysis"
    /\ call.logs = CharsOom
    /\ call.similar_incidents # <<>>
    /\ call.attempted_fixes # <<>>
    /\ apiKey

\* C14: for logs that are empty or match no signature, with no similar
\* incidents and no attempted fixes, generate_fallback_analysis returns the
\* causes ["Unknown error pattern"], the fix "Review full logs and correlate
\* with recent changes" and confidence low.
C14_GenericResult ==
    (/\ call.fn = "generate_fallback_analysis"
     /\ Hits(call.logs) = {}
     /\ call.similar_incidents = <<>>
     /\ call.attempted_fixes = <<>>) =>
        /\ call.result.suspected_root_causes = <<"Unknown error pattern">>
        /\ call.result.suggested_fix = "Review full logs and correlate with recent changes"
        /\ call.result.confidence = "low"

\* C18: for logs that match one or more signatures the confidence is that of
\* the first matching signature in the order of the chain, and so are the
\* causes when no similar incident enriches them and the fix when no fix was
\* attempted; a cause of a later matching signature is in the result only if
\* a similar incident brought it.
C18_FirstMatchWins ==
    (call.fn = "generate_fallback_analysis" /\ Hits(call.logs) # {}) =>
        LET first == CHOOSE n \in Hits(call.logs) : \A m \in Hits(call.logs) : n <= m
        IN  /\ call.result.confidence = Patterns[first].confidence
            /\ call.similar_incidents = <<>>
                  => call.result.suspected_root_causes = Patterns[first].causes
            /\ call.attempted_fixes = <<>>
                  => call.result.suggested_fix = Patterns[first].fix
            /\ \A m \in Hits(call.logs) \ {first} :
                  (Range(Patterns[m].causes) \cap Range(call.result.suspected_root_causes))
                     \subseteq Range(PastCauses(call.similar_incidents))

\* the pattern tier ran on logs that match two signatures, with nothing to
\* enrich or adjust its result
C18_Witness ==
    /\ call.fn = "generate_fallback_analysis"
    /\ Cardinality(Hits(call.logs)) >= 2
    /\ call.similar_incidents = <<>>
    /\ call.attempted_fixes = <<>>

\* text ends with the note, after the fix it starts with
Appended(text, fix, note) ==
    /\ Len(text) >= Len(fix) + Len(note)
    /\ SubSeq(text, 1, Len(fix)) = fix
    /\ \E i \in (Len(fix) + 1)..(Len(text) - Len(note) + 1) :
          SubSeq(text, i, i + Len(note) - 1) = note

\* C19: with similar incidents, the causes returned are the union of the
\* pattern tier's causes and the similar incidents' root causes, and the fix
\* is the pattern tier's fix with the resolution notes of the most similar
\* incident appended.
C19_EnrichmentUnion ==
    (/\ call.fn = "generate_fallback_analysis"
     /\ call.similar_incidents # <<>>
     /\ call.attempted_fixes = <<>>) =>
        LET first == CHOOSE n \in Hits(call.logs) : \A m \in Hits(call.logs) : n <= m
            tier == IF Hits(call.logs) = {} THEN NoPattern ELSE Patterns[first]
        IN  /\ Range(call.result.suspected_root_causes)
                 = Range(tier.causes) \cup Range(PastCauses(call.similar_incidents))
            /\ Appended(call.result.suggested_fix, tier.fix,
                        call.similar_incidents[1].resolution_notes)

\* the steps of POST /action that send a response
ActionSteps == {"action", "action_evaluated", "action_analyzed"}

\* C12: a successful applyFix response carries a next suggestion exactly when
\* its evaluation recommends continue_investigating and reports status open;
\* the stored status of a record changes only in a step of an explicit
\* resolve of its id.
C12_SuggestionIffContinue ==
    [][/\ (resp'.step \in ActionSteps /\ resp'.code = 200) =>
             /\ (resp'.next_suggestion # None)
                  <=> (/\ "recommendation" \in DOMAIN resp'.evaluation
                       /\ resp'.evaluation.recommendation = "continue_investigating")
             /\ resp'.status = "open"
       /\ \A i \in Stored : \A j \in Range(disk'.data) :
             (SameRecord(i, j) /\ i.status # j.status)
                => /\ resp'.step = "resolve"
                   /\ resp'.code = 200
                   /\ resp'.incident_id = i.id]_vars

\* an applyFix whose evaluation call failed answered with a next suggestion,
\* and its incident is still open
C12_Witness ==
    /\ resp.step = "action_analyzed"
    /\ resp.code = 200
    /\ resp.evaluation.recommendation = "continue_investigating"
    /\ resp.next_suggestion # None
    /\ Target(resp.incident_id) # None
    /\ Target(resp.incident_id).status = "open"
    /\ Target(resp.incident_id).attempted_fixes # <<>>

IsPrefix(s, t) == Len(s) <= Len(t) /\ SubSeq(t, 1, Len(s)) = s

\* C15: in every step the attempted_fixes of a stored record extend what was
\* stored before; the list an applyFix wrote stays a prefix of its record's
\* list while the request is under way, and an applyFix that answers at once
\* has its fix as the last entry of the record.
C15_FixesAppendOnly ==
    [][/\ \A i \in Stored : \A j \in Range(disk'.data) :
             SameRecord(i, j) => IsPrefix(i.attempted_fixes, j.attempted_fixes)
       /\ \A task \in tasks \cup tasks' : task.op = "action" =>
             \A j \in Range(disk'.data) :
                SameRecord(task.updated_incident, j)
                   => IsPrefix(task.updated_incident.attempted_fixes, j.attempted_fixes)
       /\ (now' # now /\ resp'.step = "action" /\ resp'.code = 200) =>
             LET j == get_incident(disk'.data, resp'.incident_id)
             IN  /\ j # None
                 /\ j.attempted_fixes # <<>>
                 /\ j.attempted_fixes[Len(j.attempted_fixes)].applied_at = now']_vars

\* a submit resumed after an applyFix on its incident and the record, written
\* by the submit, has the fix
C15_Witness ==
    /\ resp.step = "submit_resume"
    /\ \E i \in Stored : /\ i.id = resp.incident_id
                         /\ i.updated_at = now
                         /\ i.attempted_fixes # <<>>

\* C16: while a submit is between its first store read and its last store
\* write (it waits for the analysis), no other request writes the store.
C16_RequestsAtomic ==
    [][\A task \in tasks \cap tasks' : task.op = "submit" => disk' = disk]_vars

\* the place of a returned incident in the stored list
PositionOf(incident) == CHOOSE n \in 1..Len(disk.data) : disk.data[n] = incident

\* C17: find_similar_incidents returns min(top_k, number of qualifying
\* incidents) incidents; none left out scores higher than one returned; of
\* equal scores the one stored first comes first, among the returned and
\* between a returned and a left-out one.
C17_TopKStable ==
    call.fn = "find_similar_incidents" =>
        LET r == call.result
            returned == {PositionOf(r[n]) : n \in 1..Len(r)}
            S(m) == Score(call.logs, disk.data[m])
            Same(x, y) == x.num * y.den = y.num * x.den
            More(x, y) == x.num * y.den > y.num * x.den
        IN  /\ Len(r) = Min(call.top_k, Cardinality(Qualifying(call.logs)))
            /\ returned \subseteq Qualifying(call.logs)
            /\ Cardinality(returned) = Len(r)
            /\ \A n \in 1..(Len(r) - 1) :
                  Same(Score(call.logs, r[n]), Score(call.logs, r[n + 1]))
                     => PositionOf(r[n]) < PositionOf(r[n + 1])
            /\ \A m \in Qualifying(call.logs) \ returned : \A n \in returned :
                  /\ ~More(S(m), S(n))
                  /\ Same(S(m), S(n)) => n < m

\* a call that returned two incidents of the same score and left out a third
\* of that score
C17_Witness ==
    /\ call.fn = "find_similar_incidents"
    /\ Len(call.result) = 2
    /\ Score(call.logs, call.result[1]) = Score(call.logs, call.result[2])
    /\ \E m \in Qualifying(call.logs) :
          /\ \A n \in 1..Len(call.result) : call.result[n] # disk.data[m]
          /\ Score(call.logs, disk.data[m]) = Score(call.logs, call.result[2])

\* C20: the update_incident of a resumed submit changes no record but the one
\* this submit created, and of that one only suspected_root_causes and
\* updated_at; no record is added or removed by it.
C20_RootCausesToOwnRecord ==
    [][\A task \in tasks \ tasks' : task.op = "submit" =>
          /\ Len(disk'.data) = Len(disk.data)
          /\ \A n \in 1..Len(disk.data) :
                disk'.data[n] # disk.data[n] =>
                   /\ disk.data[n].created_at = task.incident.created_at
                   /\ disk'.data[n] =
                        [disk.data[n] EXCEPT
                            !.suspected_root_causes = disk'.data[n].suspected_root_causes,
                            !.updated_at = disk'.data[n].updated_at]]_vars

\* C21: without an API key every POST /action that succeeds, whatever its
\* new_logs, answers with an evaluation of likely_resolved true and
\* recommendation resolve and with no next suggestion, and the record it
\* evaluated has the fix of the request as its last attempted fix.
C21_NoKeyAlwaysResolve ==
    [][\A request \in ActionRequestsNoKey :
          (~apiKey /\ ApplyAction(request) /\ resp'.code = 200) =>
             /\ resp'.step = "action"
             /\ resp'.evaluation.likely_resolved = TRUE
             /\ resp'.evaluation.recommendation = "resolve"
             /\ resp'.next_suggestion = None
             /\ LET j == get_incident(disk'.data, request.incident_id)
                IN  /\ j # None
                    /\ j.attempted_fixes # <<>>
                    /\ j.attempted_fixes[Len(j.attempted_fixes)]
                         = [fix |-> request.fix_applied, applied_at |-> now']]_vars

\* a POST /action succeeded without an API key on an incident with one fix
\* recorded (the request's) and was told to resolve
C21_Witness ==
    /\ ~apiKey
    /\ resp.step = "action"
    /\ resp.code = 200
    /\ resp.evaluation.recommendation = "resolve"
    /\ resp.next_suggestion = None
    /\ Target(resp.incident_id) # None
    /\ Len(Target(resp.incident_id).attempted_fixes) = 1
    /\ Target(resp.incident_id).updated_at = now

====
